---- MODULE Spec2Model ----
(***************************************************************************)
(* Model of scripts/approxQoEdist.py: Beta approximation of a QoE rating   *)
(* distribution from a MOS and an SOS parameter.                           *)
(*                                                                         *)
(* The library is a set of pure functions.  Each public function is one    *)
(* action: the caller picks the arguments, the action records the outcome  *)
(* of the whole call (the value returned or the exception raised) together *)
(* with the ordered trace of the internal calls it made, and Return hands  *)
(* the outcome back to the caller.                                         *)
(*                                                                         *)
(* Numbers are exact extended rationals [n, d]: d > 0 is the fraction n/d  *)
(* in lowest terms, d = 0 is an IEEE special value (0/0 = nan, 1/0 = inf,  *)
(* -1/0 = -inf).  Rounding of binary floating point is not modelled.       *)
(* Scalar arguments are Python floats, as the docstrings say: dividing one *)
(* by zero raises ZeroDivisionError; numpy arrays and pandas Series follow *)
(* IEEE rules instead (x/0 = inf, 0/0 = nan).                              *)
(***************************************************************************)
EXTENDS Integers, Sequences, FiniteSets, TLC

VARIABLES pc, fn, args, outcome, msg, ret, trace

vars == <<pc, fn, args, outcome, msg, ret, trace>>

(***************************************************************************)
(* Bounds of the model                                                     *)
(***************************************************************************)
\* the upper scale bound high is drawn from 0..MaxHigh, low from 0..1
MaxHigh == 5
\* the SOS parameter is drawn from k/SosDen, k in -1..SosDen+1
SosDen == 4
\* values the library may return for non-integer shapes: k/CdfGrid
CdfGrid == 2
\* sample sets have up to MaxConditions conditions
MaxConditions == 2
\* a rectangular array has up to MaxRaters ratings per condition
MaxRaters == 2
\* a table of (condition, rating) rows has up to MaxRows rows
MaxRows == 3

(***************************************************************************)
(* Extended rational arithmetic                                            *)
(***************************************************************************)
Abs(i) == IF i < 0 THEN -i ELSE i

Sign(i) == IF i < 0 THEN -1 ELSE IF i > 0 THEN 1 ELSE 0

RECURSIVE GCD(_, _)
GCD(i, j) == IF j = 0 THEN i ELSE GCD(j, i % j)

\* n/d in lowest terms with a positive denominator; x/0 is an IEEE special
Rat(n, d) ==
    IF d = 0 THEN [n |-> Sign(n), d |-> 0]
    ELSE LET g == GCD(Abs(n), Abs(d))
         IN  [n |-> Sign(d) * (n \div g), d |-> Abs(d) \div g]

Num(i) == [n |-> i, d |-> 1]

NaN == [n |-> 0, d |-> 0]

Inf == [n |-> 1, d |-> 0]

IsNaN(x) == x.d = 0 /\ x.n = 0

IsFinite(x) == x.d > 0

Neg(x) == [n |-> -x.n, d |-> x.d]

Add(x, y) ==
    IF IsNaN(x) \/ IsNaN(y) THEN NaN
    ELSE IF x.d = 0 /\ y.d = 0 THEN (IF x.n = y.n THEN x ELSE NaN)
    ELSE IF x.d = 0 THEN x
    ELSE IF y.d = 0 THEN y
    ELSE Rat(x.n * y.d + y.n * x.d, x.d * y.d)

Sub(x, y) == Add(x, Neg(y))

Mul(x, y) ==
    IF IsNaN(x) \/ IsNaN(y) THEN NaN
    ELSE IF x.d = 0 \/ y.d = 0
         THEN (IF x.n = 0 \/ y.n = 0 THEN NaN
               ELSE [n |-> Sign(x.n) * Sign(y.n), d |-> 0])
    ELSE Rat(x.n * y.n, x.d * y.d)

\* IEEE division, as numpy does it: x/0 is inf or nan, never an exception
Div(x, y) ==
    IF IsNaN(x) \/ IsNaN(y) THEN NaN
    ELSE IF x.d = 0 /\ y.d = 0 THEN NaN
    ELSE IF y.d = 0 THEN Num(0)
    ELSE IF x.d = 0 THEN [n |-> x.n * (IF y.n < 0 THEN -1 ELSE 1), d |-> 0]
    ELSE Rat(x.n * y.d, x.d * y.n)

\* comparisons: every comparison with nan is false
Lt(x, y) ==
    /\ ~IsNaN(x)
    /\ ~IsNaN(y)
    /\ IF x.d = 0 /\ y.d = 0 THEN x.n < y.n ELSE x.n * y.d < y.n * x.d

Gt(x, y) == Lt(y, x)

Le(x, y) == ~IsNaN(x) /\ ~IsNaN(y) /\ ~Lt(y, x)

Ge(x, y) == Le(y, x)

Eq(x, y) == ~IsNaN(x) /\ ~IsNaN(y) /\ x = y

IsInteger(x) == x.d = 1

(***************************************************************************)
(* Outcomes of a call                                                      *)
(***************************************************************************)
None == [none |-> TRUE]

Ev(name, mos, sos_parameter, low, high) ==
    [fn |-> name, mos |-> mos, sos_parameter |-> sos_parameter,
     low |-> low, high |-> high]

Returns(value, tr) ==
    [outcome |-> "return", msg |-> "", ret |-> value, trace |-> tr]

Raises(exc, text, tr) ==
    [outcome |-> exc, msg |-> text, ret |-> None, trace |-> tr]

\* the result r of a call the running function makes, recorded in its trace
Invoke(ev, r) == [r EXCEPT !.trace = <<ev>> \o @]

(***************************************************************************)
(* checkParameters, getBetaParams                                          *)
(***************************************************************************)
MsgScale == "Upper bound of rating scale must be larger than lower bound: low<high."

MsgMOS == "MOS value must be in the range [low;high]."

MsgSOSParameter == "SOS parameter must be in range [0;1]."

MsgZeroDivision == "float division by zero"

\* checkParameters without its test of the SOS parameter
checkParametersNoSOS(mos, sos_parameter, low, high) ==
    IF low >= high THEN Raises("ValueError", MsgScale, <<>>)
    ELSE IF Gt(mos, Num(high)) \/ Lt(mos, Num(low))
         THEN Raises("ValueError", MsgMOS, <<>>)
    ELSE Returns(None, <<>>)

checkParameters(mos, sos_parameter, low, high) ==
    IF low >= high THEN Raises("ValueError", MsgScale, <<>>)
    ELSE IF Gt(mos, Num(high)) \/ Lt(mos, Num(low))
         THEN Raises("ValueError", MsgMOS, <<>>)
    ELSE IF Gt(sos_parameter, Num(1)) \/ Lt(sos_parameter, Num(0))
         THEN Raises("ValueError", MsgSOSParameter, <<>>)
    ELSE Returns(None, <<>>)

\* the call of checkParameters that opens every function taking a MOS
Checked(mos, sos_parameter, low, high) ==
    Invoke(Ev("checkParameters", mos, sos_parameter, low, high),
           checkParameters(mos, sos_parameter, low, high))

\* x / y on Python floats: the quotient, or ZeroDivisionError
PyDiv(x, y) ==
    IF y.n = 0 /\ y.d = 1 THEN Raises("ZeroDivisionError", MsgZeroDivision, <<>>)
    ELSE Returns(Div(x, y), <<>>)

\* getBetaParams with the distances to the two bounds exchanged
getBetaParamsSwapped(mos, sos_parameter, low, high) ==
    LET chk == Checked(mos, sos_parameter, low, high)
        den == Mul(Num(high - low), sos_parameter)
        one == Sub(Num(1), sos_parameter)
        a   == PyDiv(Mul(one, Sub(Num(high), mos)), den)
        b   == PyDiv(Mul(one, Sub(mos, Num(low))), den)
    IN  IF chk.outcome # "return" THEN chk
        ELSE IF a.outcome # "return" THEN [a EXCEPT !.trace = chk.trace]
        ELSE IF b.outcome # "return" THEN [b EXCEPT !.trace = chk.trace]
        ELSE Returns([a |-> a.ret, b |-> b.ret], chk.trace)

getBetaParams(mos, sos_parameter, low, high) ==
    LET chk == Checked(mos, sos_parameter, low, high)
        den == Mul(Num(high - low), sos_parameter)
        one == Sub(Num(1), sos_parameter)
        a   == PyDiv(Mul(one, Sub(mos, Num(low))), den)
        b   == PyDiv(Mul(one, Sub(Num(high), mos)), den)
    IN  IF chk.outcome # "return" THEN chk
        ELSE IF a.outcome # "return" THEN [a EXCEPT !.trace = chk.trace]
        ELSE IF b.outcome # "return" THEN [b EXCEPT !.trace = chk.trace]
        ELSE Returns([a |-> a.ret, b |-> b.ret], chk.trace)

(***************************************************************************)
(* scipy.stats.beta and scipy.stats.rv_discrete, as the code uses them     *)
(*                                                                         *)
(* The regularized incomplete beta function has a closed form for integer  *)
(* shapes, which is computed here.  For other positive shapes the value is *)
(* one the library supplies (the parameter u): any number of [0, 1] for    *)
(* the cumulative, non-decreasing in its argument; any number >= 0 or inf  *)
(* for the density.                                                        *)
(***************************************************************************)
RECURSIVE Pow(_, _)
Pow(x, k) == IF k = 0 THEN Num(1) ELSE Mul(x, Pow(x, k - 1))

RECURSIVE Factorial(_)
Factorial(k) == IF k <= 1 THEN 1 ELSE k * Factorial(k - 1)

Binomial(n, k) == Factorial(n) \div (Factorial(k) * Factorial(n - k))

RECURSIVE BetaIncFrom(_, _, _, _)
\* sum over j = i .. n of C(n, j) y^j (1-y)^(n-j)
BetaIncFrom(i, n, y, acc) ==
    IF i > n THEN acc
    ELSE BetaIncFrom(i + 1, n, y,
             Add(acc, Mul(Num(Binomial(n, i)),
                          Mul(Pow(y, i), Pow(Sub(Num(1), y), n - i)))))

\* I_y(a, b) for integers a, b >= 1
BetaInc(a, b, y) == BetaIncFrom(a, a + b - 1, y, Num(0))

\* y^(a-1) (1-y)^(b-1) / B(a, b) for integers a, b >= 1
BetaDensity(a, b, y) ==
    Mul(Num((Factorial(a + b - 1) \div (Factorial(a - 1) * Factorial(b - 1)))),
        Mul(Pow(y, a - 1), Pow(Sub(Num(1), y), b - 1)))

\* rv_continuous._argcheck of beta: both shapes positive
ShapesOK(a, b) == Gt(a, Num(0)) /\ Gt(b, Num(0))

IntegerShapes(a, b) == IsInteger(a) /\ IsInteger(b)

\* beta.cdf(y, a, b): nan for bad shapes, 1 from the upper end of the support
\* on, 0 up to its lower end, the incomplete beta function inside
BetaCDF(y, a, b, u) ==
    IF ~ShapesOK(a, b) \/ IsNaN(y) THEN NaN
    ELSE IF Ge(y, Num(1)) THEN Num(1)
    ELSE IF Le(y, Num(0)) THEN Num(0)
    ELSE IF IntegerShapes(a, b) THEN BetaInc(a.n, b.n, y)
    ELSE u

\* beta.pdf(y, a, b): nan for bad shapes, 0 outside the support
BetaPDF(y, a, b, u) ==
    IF ~ShapesOK(a, b) \/ IsNaN(y) THEN NaN
    ELSE IF Lt(y, Num(0)) \/ Gt(y, Num(1)) THEN Num(0)
    ELSE IF IntegerShapes(a, b) THEN BetaDensity(a.n, b.n, y)
    ELSE u

\* beta(a, b, loc, scale): the frozen distribution; shapes are not checked here
Beta(a, b, loc, scale) == [a |-> a, b |-> b, loc |-> loc, scale |-> scale]

\* rv_frozen.cdf over an array of points; u[i] is the library's value at zk[i]
FrozenCDF(rv, zk, u) ==
    [i \in 1 .. Len(zk) |->
        BetaCDF(Div(Sub(zk[i], Num(rv.loc)), Num(rv.scale)), rv.a, rv.b, u[i])]

RECURSIVE NpSum(_)
\* numpy.sum of an array: nan propagates
NpSum(xs) == IF xs = <<>> THEN Num(0) ELSE Add(Head(xs), NpSum(Tail(xs)))

\* numpy.diff
NpDiff(xs) == [i \in 1 .. Len(xs) - 1 |-> Sub(xs[i + 1], xs[i])]

MsgNegativePk == "All elements of pk must be non-negative."

MsgSumPk == "The sum of provided pk is not 1."

\* rv_discrete(values=(xk, pk)): the constructor checks the masses
RvDiscrete(xk, pk) ==
    IF \E i \in 1 .. Len(pk) : Lt(pk[i], Num(0))
    THEN Raises("ValueError", MsgNegativePk, <<>>)
    ELSE IF ~Eq(NpSum(pk), Num(1)) THEN Raises("ValueError", MsgSumPk, <<>>)
    ELSE Returns([xk |-> xk, pk |-> pk], <<>>)

(***************************************************************************)
(* getBetaCDF, getBetaPDF, getBetaDistribution, getDiscreteDistribution    *)
(***************************************************************************)
MsgX == "x must be in the range [low;high]."

getBetaCDF(x, mos, sos_parameter, low, high, u) ==
    LET chk == Checked(mos, sos_parameter, low, high)
        ab  == Invoke(Ev("getBetaParams", mos, sos_parameter, low, high),
                      getBetaParams(mos, sos_parameter, low, high))
        y   == Div(Sub(x, Num(low)), Num(high - low))
    IN  IF chk.outcome # "return" THEN chk
        ELSE IF Lt(x, Num(low)) \/ Gt(x, Num(high))
             THEN Raises("ValueError", MsgX, chk.trace)
        ELSE IF Eq(mos, Num(high))
             THEN Returns(IF Lt(x, Num(high)) THEN Num(0) ELSE Num(1), chk.trace)
        ELSE IF Eq(mos, Num(low)) THEN Returns(Num(1), chk.trace)
        ELSE IF ab.outcome # "return"
             THEN [ab EXCEPT !.trace = chk.trace \o @]
        ELSE Returns(BetaCDF(y, ab.ret.a, ab.ret.b, u),
                     chk.trace \o ab.trace
                         \o <<Ev("beta.cdf", mos, sos_parameter, low, high)>>)

getBetaPDF(x, mos, sos_parameter, low, high, u) ==
    LET chk == Checked(mos, sos_parameter, low, high)
        ab  == Invoke(Ev("getBetaParams", mos, sos_parameter, low, high),
                      getBetaParams(mos, sos_parameter, low, high))
        y   == Div(Sub(x, Num(low)), Num(high - low))
    IN  IF chk.outcome # "return" THEN chk
        ELSE IF Lt(x, Num(low)) \/ Gt(x, Num(high))
             THEN Raises("ValueError", MsgX, chk.trace)
        ELSE IF ab.outcome # "return"
             THEN [ab EXCEPT !.trace = chk.trace \o @]
        ELSE Returns(BetaPDF(y, ab.ret.a, ab.ret.b, u),
                     chk.trace \o ab.trace
                         \o <<Ev("beta.pdf", mos, sos_parameter, low, high)>>)

getBetaDistribution(mos, sos_parameter, low, high) ==
    LET chk == Checked(mos, sos_parameter, low, high)
        ab  == Invoke(Ev("getBetaParams", mos, sos_parameter, low, high),
                      getBetaParams(mos, sos_parameter, low, high))
    IN  IF chk.outcome # "return" THEN chk
        ELSE IF ab.outcome # "return"
             THEN [ab EXCEPT !.trace = chk.trace \o @]
        ELSE Returns(Beta(ab.ret.a, ab.ret.b, low, high - low),
                     chk.trace \o ab.trace
                         \o <<Ev("beta", mos, sos_parameter, low, high)>>)

\* np.arange(low, high+1)
Xk(low, high) == [i \in 1 .. high - low + 1 |-> low + i - 1]

\* the upper point mass with the index of the lower one
PkHighFirst(n) == [i \in 1 .. n |-> IF i = 1 THEN Num(1) ELSE Num(0)]

\* np.zeros(n) with pk[-1] = 1
PkHigh(n) == [i \in 1 .. n |-> IF i = n THEN Num(1) ELSE Num(0)]

\* np.zeros(n) with pk[0] = 1
PkLow(n) == [i \in 1 .. n |-> IF i = 1 THEN Num(1) ELSE Num(0)]

\* the call rv.cdf(zk) on the frozen distribution rv, and the array it returned
EvCDF(rv, zk, bcdf) ==
    [fn |-> "rv_frozen.cdf", rv |-> rv, zk |-> zk, bcdf |-> bcdf]

\* the half-integer edges without the assignment zk[0], zk[-1] = low, high
ZkUnclamped(low, high) ==
    [i \in 1 .. high - low + 2 |-> Rat(2 * (low + i - 1) - 1, 2)]

\* np.arange(low-0.5, high+1.5, step=1) with zk[0], zk[-1] = low, high
Zk(low, high) ==
    [i \in 1 .. high - low + 2 |->
        IF i = 1 THEN Num(low)
        ELSE IF i = high - low + 2 THEN Num(high)
        ELSE Rat(2 * (low + i - 1) - 1, 2)]

getDiscreteDistribution(mos, sos_parameter, low, high, u) ==
    LET chk  == Checked(mos, sos_parameter, low, high)
        xk   == Xk(low, high)
        evd  == Ev("rv_discrete", mos, sos_parameter, low, high)
        rv   == Invoke(Ev("getBetaDistribution", mos, sos_parameter, low, high),
                       getBetaDistribution(mos, sos_parameter, low, high))
        zk   == Zk(low, high)
        bcdf == FrozenCDF(rv.ret, zk, u)
        pk   == NpDiff(bcdf)
        gen  == Invoke(evd, RvDiscrete(xk, pk))
    IN  IF chk.outcome # "return" THEN chk
        ELSE IF Eq(mos, Num(high))
             THEN [Invoke(evd, RvDiscrete(xk, PkHigh(high + 1 - low)))
                      EXCEPT !.trace = chk.trace \o @]
        ELSE IF Eq(mos, Num(low))
             THEN [Invoke(evd, RvDiscrete(xk, PkLow(high + 1 - low)))
                      EXCEPT !.trace = chk.trace \o @]
        ELSE IF rv.outcome # "return"
             THEN [rv EXCEPT !.trace = chk.trace \o @]
        ELSE [gen EXCEPT !.trace =
                 chk.trace \o rv.trace
                     \o <<EvCDF(rv.ret, zk, bcdf)>> \o @]

(***************************************************************************)
(* calcSOSParameterForMOSSOS, calcSOSParameter                             *)
(*                                                                         *)
(* A standard deviation is the square root of a rational, so it is kept as *)
(* [sq |-> v], the non-negative number whose square is v.                  *)
(***************************************************************************)
DefaultLow == 1

DefaultHigh == 5

RECURSIVE SeriesSum(_)
\* pandas Series.sum, which numpy.sum calls on a Series: nan entries are skipped
SeriesSum(xs) ==
    IF xs = <<>> THEN Num(0)
    ELSE IF IsNaN(Head(xs)) THEN SeriesSum(Tail(xs))
    ELSE Add(Head(xs), SeriesSum(Tail(xs)))

\* sos / k
StdOver(sos, k) == [sq |-> Div(sos.sq, Num(k * k))]

\* sos ** 2
Square(sos) == sos.sq

\* kind is the type of the arrays mos and sos: "ndarray" or "Series"
calcSOSParameterForMOSSOS(mos, sos, low, high, kind) ==
    LET n    == Len(mos)
        zmos == [i \in 1 .. n |-> Div(Sub(mos[i], Num(low)), Num(high - low))]
        zvar == [i \in 1 .. n |-> Square(StdOver(sos[i], high - low))]
        w    == [i \in 1 .. n |-> Sub(zmos[i], Mul(zmos[i], zmos[i]))]
        num  == [i \in 1 .. n |-> Mul(w[i], zvar[i])]
        den  == [i \in 1 .. n |-> Mul(w[i], w[i])]
    IN  IF kind = "Series" THEN Div(SeriesSum(num), SeriesSum(den))
        ELSE Div(NpSum(num), NpSum(den))

RECURSIVE SumSeq(_)
SumSeq(xs) == IF xs = <<>> THEN 0 ELSE Head(xs) + SumSeq(Tail(xs))

\* mean of a row of ratings
Mean(row) == Rat(SumSeq(row), Len(row))

\* std of a row of ratings with ddof delta degrees of freedom:
\* numpy's std has ddof = 0, pandas' std has ddof = 1 (nan for one rating)
Std(row, ddof) ==
    LET m  == Mean(row)
        sq == [i \in 1 .. Len(row) |->
                  Mul(Sub(Num(row[i]), m), Sub(Num(row[i]), m))]
    IN  [sq |-> Div(NpSum(sq), Num(Len(row) - ddof))]

RECURSIVE Sorted(_)
\* the elements of a finite set of integers in increasing order
Sorted(S) ==
    IF S = {} THEN <<>>
    ELSE LET m == CHOOSE x \in S : \A z \in S : x <= z
         IN  <<m>> \o Sorted(S \ {m})

RECURSIVE RatingsOf(_, _)
\* the ratings of condition c, in row order
RatingsOf(rows, c) ==
    IF rows = <<>> THEN <<>>
    ELSE IF Head(rows)[1] = c THEN <<Head(rows)[2]>> \o RatingsOf(Tail(rows), c)
    ELSE RatingsOf(Tail(rows), c)

\* y.groupby(by='condition')["rating"]: one group per condition, keys sorted
GroupBy(rows) ==
    LET keys == Sorted({rows[i][1] : i \in 1 .. Len(rows)})
    IN  [i \in 1 .. Len(keys) |-> RatingsOf(rows, keys[i])]

MsgType == "QoE ratings y must be given as numpy array or pandas dataframe"

EvSOS(mos, sos, low, high) ==
    [fn |-> "calcSOSParameterForMOSSOS", mos |-> mos, sos |-> sos,
     low |-> low, high |-> high]

\* y is [type |-> "ndarray", data |-> rows of ratings],
\*      [type |-> "DataFrame", data |-> rows <<condition, rating>>], or other
calcSOSParameter(y, low, high) ==
    IF y.type = "ndarray"
    THEN LET mos == [i \in 1 .. Len(y.data) |-> Mean(y.data[i])]
             sos == [i \in 1 .. Len(y.data) |-> Std(y.data[i], 0)]
         IN  Returns(calcSOSParameterForMOSSOS(mos, sos, DefaultLow, DefaultHigh,
                                               "ndarray"),
                     <<EvSOS(mos, sos, DefaultLow, DefaultHigh)>>)
    ELSE IF y.type = "DataFrame"
    THEN LET vals == GroupBy(y.data)
             mos  == [i \in 1 .. Len(vals) |-> Mean(vals[i])]
             sos  == [i \in 1 .. Len(vals) |-> Std(vals[i], 1)]
         IN  Returns(calcSOSParameterForMOSSOS(mos, sos, DefaultLow, DefaultHigh,
                                               "Series"),
                     <<EvSOS(mos, sos, DefaultLow, DefaultHigh)>>)
    ELSE Raises("TypeError", MsgType, <<>>)

(***************************************************************************)
(* getBetaParamsForMOSSOS                                                  *)
(***************************************************************************)
MsgSOSTooHigh == "SOS value is too high. Maximum SOS for given MOS is exceeded."

MsgSOSPositive == "SOS must be positive number."

\* getBetaParamsForMOSSOS without its test of the sign of sos
getBetaParamsForMOSSOSNoSign(mos, sos, low, high) ==
    LET mu     == Div(Sub(mos, Num(low)), Num(high - low))
        s      == Div(sos, Num(high - low))
        sigma2 == Mul(s, s)
        q1     == PyDiv(Sub(Num(1), mu), sigma2)
        q2     == PyDiv(Num(1), mu)
        a      == Mul(Sub(q1.ret, q2.ret), Mul(mu, mu))
        b      == Mul(a, Sub(q2.ret, Num(1)))
    IN  IF low >= high THEN Raises("ValueError", MsgScale, <<>>)
        ELSE IF Gt(mos, Num(high)) \/ Lt(mos, Num(low))
             THEN Raises("ValueError", MsgMOS, <<>>)
        ELSE IF Gt(Mul(sos, sos), Mul(Sub(Num(high), mos), Sub(mos, Num(low))))
             THEN Raises("ValueError", MsgSOSTooHigh, <<>>)
        ELSE IF q1.outcome # "return" THEN q1
        ELSE IF q2.outcome # "return" THEN q2
        ELSE Returns([a |-> a, b |-> b], <<>>)

getBetaParamsForMOSSOS(mos, sos, low, high) ==
    LET mu     == Div(Sub(mos, Num(low)), Num(high - low))
        s      == Div(sos, Num(high - low))
        sigma2 == Mul(s, s)
        q1     == PyDiv(Sub(Num(1), mu), sigma2)
        q2     == PyDiv(Num(1), mu)
        a      == Mul(Sub(q1.ret, q2.ret), Mul(mu, mu))
        b      == Mul(a, Sub(q2.ret, Num(1)))
    IN  IF low >= high THEN Raises("ValueError", MsgScale, <<>>)
        ELSE IF Gt(mos, Num(high)) \/ Lt(mos, Num(low))
             THEN Raises("ValueError", MsgMOS, <<>>)
        ELSE IF Gt(Mul(sos, sos), Mul(Sub(Num(high), mos), Sub(mos, Num(low))))
             THEN Raises("ValueError", MsgSOSTooHigh, <<>>)
        ELSE IF Lt(sos, Num(0)) THEN Raises("ValueError", MsgSOSPositive, <<>>)
        ELSE IF q1.outcome # "return" THEN q1
        ELSE IF q2.outcome # "return" THEN q2
        ELSE Returns([a |-> a, b |-> b], <<>>)

(***************************************************************************)
(* Arguments a caller may pass                                             *)
(***************************************************************************)
Lows == {0, 1}

Highs == 0 .. MaxHigh

\* every half between -1/2 and MaxHigh + 1/2
MOSValues == {Rat(k, 2) : k \in -1 .. 2 * MaxHigh + 1}

SOSParameters == {Rat(k, SosDen) : k \in -1 .. SosDen + 1}

\* every half between -1/2 and MaxHigh + 1/2
XValues == {Rat(k, 2) : k \in -1 .. 2 * MaxHigh + 1}

\* every half between -MaxHigh and MaxHigh
SOSValues == {Rat(k, 2) : k \in -2 * MaxHigh .. 2 * MaxHigh}

\* per-condition means and standard deviations passed in directly
MeanValues == {Num(k) : k \in 0 .. MaxHigh}

StdValues == {[sq |-> Num(0)], [sq |-> Num(1)]}

Ratings == {1, 2, 5}

\* the sample functions are called with the scales (0, MaxHigh), (1, MaxHigh)
SampleHighs == {MaxHigh}

\* the library needs to supply no value: the call fails, the shapes are bad,
\* or the closed form for integer shapes applies
ClosedForm(mos, sos_parameter, low, high) ==
    LET ab == getBetaParams(mos, sos_parameter, low, high)
    IN  \/ ab.outcome # "return"
        \/ ~ShapesOK(ab.ret.a, ab.ret.b)
        \/ IntegerShapes(ab.ret.a, ab.ret.b)

\* values of a cumulative at one point
CdfValues == {Rat(k, CdfGrid) : k \in 0 .. CdfGrid}

\* values of a density at one point
PdfValues == {Rat(k, CdfGrid) : k \in 0 .. 2 * CdfGrid} \cup {Inf}

RECURSIVE NonDecreasing(_, _)
\* the non-decreasing sequences of n numbers k/CdfGrid with lo <= k <= CdfGrid
NonDecreasing(n, lo) ==
    IF n = 0 THEN {<<>>}
    ELSE UNION {{<<Rat(k, CdfGrid)>> \o t : t \in NonDecreasing(n - 1, k)} :
                    k \in lo .. CdfGrid}

\* values of a cumulative at n >= 2 increasing points, the first at the lower
\* end of its support and the last at the upper end
CdfTables(n) == {<<Num(0)>> \o t \o <<Num(1)>> : t \in NonDecreasing(n - 2, 0)}

(***************************************************************************)
(* The calls                                                               *)
(***************************************************************************)
Call(name, a, r) ==
    /\ pc' = "done"
    /\ fn' = name
    /\ args' = a
    /\ outcome' = r.outcome
    /\ msg' = r.msg
    /\ ret' = r.ret
    /\ trace' = r.trace

CheckParameters ==
    /\ pc = "idle"
    /\ \E mos \in MOSValues, sp \in SOSParameters, low \in Lows, high \in Highs :
            Call("checkParameters",
                 [mos |-> mos, sos_parameter |-> sp, low |-> low, high |-> high],
                 checkParameters(mos, sp, low, high))

GetBetaParams ==
    /\ pc = "idle"
    /\ \E mos \in MOSValues, sp \in SOSParameters, low \in Lows, high \in Highs :
            Call("getBetaParams",
                 [mos |-> mos, sos_parameter |-> sp, low |-> low, high |-> high],
                 getBetaParams(mos, sp, low, high))

GetBetaCDF ==
    /\ pc = "idle"
    /\ \E x \in XValues, mos \in MOSValues, sp \in SOSParameters,
           low \in Lows, high \in Highs :
            \E u \in IF ClosedForm(mos, sp, low, high) THEN {Num(0)} ELSE CdfValues :
                Call("getBetaCDF",
                     [x |-> x, mos |-> mos, sos_parameter |-> sp,
                      low |-> low, high |-> high],
                     getBetaCDF(x, mos, sp, low, high, u))

GetBetaPDF ==
    /\ pc = "idle"
    /\ \E x \in XValues, mos \in MOSValues, sp \in SOSParameters,
           low \in Lows, high \in Highs :
            \E u \in IF ClosedForm(mos, sp, low, high) THEN {Num(0)} ELSE PdfValues :
                Call("getBetaPDF",
                     [x |-> x, mos |-> mos, sos_parameter |-> sp,
                      low |-> low, high |-> high],
                     getBetaPDF(x, mos, sp, low, high, u))

GetBetaDistribution ==
    /\ pc = "idle"
    /\ \E mos \in MOSValues, sp \in SOSParameters, low \in Lows, high \in Highs :
            Call("getBetaDistribution",
                 [mos |-> mos, sos_parameter |-> sp, low |-> low, high |-> high],
                 getBetaDistribution(mos, sp, low, high))

GetDiscreteDistribution ==
    /\ pc = "idle"
    /\ \E mos \in MOSValues, sp \in SOSParameters, low \in Lows, high \in Highs :
            \E u \in IF ClosedForm(mos, sp, low, high)
                      THEN {[i \in 1 .. high - low + 2 |-> Num(0)]}
                      ELSE CdfTables(high - low + 2) :
                Call("getDiscreteDistribution",
                     [mos |-> mos, sos_parameter |-> sp, low |-> low, high |-> high],
                     getDiscreteDistribution(mos, sp, low, high, u))

CalcSOSParameterForMOSSOS ==
    /\ pc = "idle"
    /\ \E n \in 1 .. MaxConditions, low \in Lows, high \in SampleHighs :
           \E mos \in [1 .. n -> MeanValues], sos \in [1 .. n -> StdValues] :
               Call("calcSOSParameterForMOSSOS",
                    [mos |-> mos, sos |-> sos, low |-> low, high |-> high],
                    Returns(calcSOSParameterForMOSSOS(mos, sos, low, high,
                                                      "ndarray"), <<>>))

\* y is a rectangular array: up to MaxConditions rows of up to MaxRaters ratings
CalcSOSParameterArray ==
    /\ pc = "idle"
    /\ \E r \in 1 .. MaxConditions, c \in 1 .. MaxRaters,
          low \in Lows, high \in SampleHighs :
           \E d \in [1 .. r -> [1 .. c -> Ratings]] :
               LET y == [type |-> "ndarray", data |-> d]
               IN  Call("calcSOSParameter",
                        [y |-> y, low |-> low, high |-> high],
                        calcSOSParameter(y, low, high))

\* y is a table of up to MaxRows rows <<condition, rating>>
CalcSOSParameterFrame ==
    /\ pc = "idle"
    /\ \E r \in 1 .. MaxRows, low \in Lows, high \in SampleHighs :
           \E d \in [1 .. r -> (1 .. MaxConditions) \X Ratings] :
               LET y == [type |-> "DataFrame", data |-> d]
               IN  Call("calcSOSParameter",
                        [y |-> y, low |-> low, high |-> high],
                        calcSOSParameter(y, low, high))

\* y is neither
CalcSOSParameterOther ==
    /\ pc = "idle"
    /\ \E low \in Lows, high \in SampleHighs :
           LET y == [type |-> "list", data |-> <<>>]
           IN  Call("calcSOSParameter",
                    [y |-> y, low |-> low, high |-> high],
                    calcSOSParameter(y, low, high))

GetBetaParamsForMOSSOS ==
    /\ pc = "idle"
    /\ \E mos \in MOSValues, sos \in SOSValues, low \in Lows, high \in Highs :
           Call("getBetaParamsForMOSSOS",
                [mos |-> mos, sos |-> sos, low |-> low, high |-> high],
                getBetaParamsForMOSSOS(mos, sos, low, high))

\* the caller takes the outcome; the library keeps no state between calls
Return ==
    /\ pc = "done"
    /\ pc' = "idle"
    /\ fn' = "none"
    /\ args' = None
    /\ outcome' = "none"
    /\ msg' = ""
    /\ ret' = None
    /\ trace' = <<>>

Init ==
    /\ pc = "idle"
    /\ fn = "none"
    /\ args = None
    /\ outcome = "none"
    /\ msg = ""
    /\ ret = None
    /\ trace = <<>>

Next ==
    \/ CalcSOSParameterForMOSSOS
    \/ CalcSOSParameterArray
    \/ CalcSOSParameterFrame
    \/ CalcSOSParameterOther
    \/ GetBetaParamsForMOSSOS
    \/ CheckParameters
    \/ GetBetaParams
    \/ GetBetaCDF
    \/ GetBetaPDF
    \/ GetBetaDistribution
    \/ GetDiscreteDistribution
    \/ Return

Spec == Init /\ [][Next]_vars

(***************************************************************************)
(* Properties                                                              *)
(***************************************************************************)
Done(name) == pc = "done" /\ fn = name

\* the arguments of the finished call pass the validation of the documentation
ValidArgs ==
    /\ args.low < args.high
    /\ Le(Num(args.low), args.mos)
    /\ Le(args.mos, Num(args.high))
    /\ Le(Num(0), args.sos_parameter)
    /\ Le(args.sos_parameter, Num(1))

InteriorMOS == Lt(Num(args.low), args.mos) /\ Lt(args.mos, Num(args.high))

MOSFunctions ==
    {"getBetaParams", "getBetaCDF", "getBetaPDF", "getBetaDistribution",
     "getDiscreteDistribution"}

\* C1: for valid (mos, sos_parameter, low, high), getDiscreteDistribution
\* returns one mass per integer point low..high, every mass is non-negative
\* and the masses sum to 1.
C1_DiscreteMasses ==
    (Done("getDiscreteDistribution") /\ ValidArgs) =>
        /\ outcome = "return"
        /\ ret.xk = Xk(args.low, args.high)
        /\ Len(ret.pk) = args.high - args.low + 1
        /\ \A i \in 1 .. Len(ret.pk) : Ge(ret.pk[i], Num(0))
        /\ Eq(NpSum(ret.pk), Num(1))

\* C2: every function that takes a MOS and an SOS parameter fails with a
\* validation error and returns nothing when low >= high, mos is outside
\* [low, high] or sos_parameter is outside [0, 1]; it has then done nothing
\* but the validation.
C2_InvalidRejected ==
    (pc = "done" /\ fn \in MOSFunctions /\ ~ValidArgs) =>
        /\ outcome = "ValueError"
        /\ msg \in {MsgScale, MsgMOS, MsgSOSParameter}
        /\ ret = None
        /\ trace = <<Ev("checkParameters", args.mos, args.sos_parameter,
                        args.low, args.high)>>

\* a distribution was asked for with an SOS parameter above 1, on a valid
\* scale with a valid MOS, and the call has failed
C2_Witness ==
    /\ Done("getDiscreteDistribution")
    /\ args.low < args.high
    /\ Le(Num(args.low), args.mos)
    /\ Le(args.mos, Num(args.high))
    /\ Gt(args.sos_parameter, Num(1))
    /\ outcome = "ValueError"

\* the scale and the MOS of a finished getBetaParamsForMOSSOS call are valid
ValidMOSSOS ==
    /\ Done("getBetaParamsForMOSSOS")
    /\ args.low < args.high
    /\ Le(Num(args.low), args.mos)
    /\ Le(args.mos, Num(args.high))

SOSExceedsBound ==
    Gt(Mul(args.sos, args.sos),
       Mul(Sub(Num(args.high), args.mos), Sub(args.mos, Num(args.low))))

FailsWith(text) == outcome = "ValueError" /\ msg = text /\ ret = None

\* C3 as stated: on a valid scale and MOS, every sos < 0 fails with 'SOS must
\* be positive' and every sos with sos^2 > (high-mos)(mos-low) fails with
\* 'maximum SOS exceeded'; no (a, b) is returned.
C3_Original ==
    ValidMOSSOS =>
        /\ Lt(args.sos, Num(0)) => FailsWith(MsgSOSPositive)
        /\ SOSExceedsBound => FailsWith(MsgSOSTooHigh)

\* C3 as amended: on a valid scale and MOS, every sos with
\* sos^2 > (high-mos)(mos-low) fails with 'maximum SOS exceeded', whatever
\* its sign, and every sos < 0 within that bound fails with 'SOS must be
\* positive'; no (a, b) is returned.
C3_Amended ==
    ValidMOSSOS =>
        /\ SOSExceedsBound => FailsWith(MsgSOSTooHigh)
        /\ (Lt(args.sos, Num(0)) /\ ~SOSExceedsBound) => FailsWith(MsgSOSPositive)

\* a negative sos within the bound was rejected for its sign
C3_Witness ==
    /\ ValidMOSSOS
    /\ Lt(args.sos, Num(0))
    /\ ~SOSExceedsBound
    /\ msg = MsgSOSPositive

\* C4: for valid arguments with low < mos < high, getBetaParams returns
\* shape parameters that are both defined and strictly positive, also at
\* sos_parameter = 0 and sos_parameter = 1.
C4_ShapesPositive ==
    (Done("getBetaParams") /\ ValidArgs /\ InteriorMOS) =>
        /\ outcome = "return"
        /\ IsFinite(ret.a) /\ Gt(ret.a, Num(0))
        /\ IsFinite(ret.b) /\ Gt(ret.b, Num(0))

\* the type of the per-condition arrays calcSOSParameter derives from y
ArrayKind == IF args.y.type = "DataFrame" THEN "Series" ELSE "ndarray"

\* C5: calcSOSParameter(y, low, high) equals calcSOSParameterForMOSSOS of the
\* per-condition means and standard deviations with that same low and high.
C5_UsesGivenScale ==
    (Done("calcSOSParameter") /\ outcome = "return") =>
        ret = calcSOSParameterForMOSSOS(trace[1].mos, trace[1].sos,
                                        args.low, args.high, ArrayKind)

\* every rating of the sample set lies in [low, high]
RatingsInScale ==
    IF args.y.type = "ndarray"
    THEN \A i \in 1 .. Len(args.y.data) : \A j \in 1 .. Len(args.y.data[i]) :
             args.low <= args.y.data[i][j] /\ args.y.data[i][j] <= args.high
    ELSE \A i \in 1 .. Len(args.y.data) :
             args.low <= args.y.data[i][2] /\ args.y.data[i][2] <= args.high

\* C6: for a sample set of either shape whose ratings all lie in [low, high],
\* calcSOSParameter returns a number in [0, 1].
C6_InUnitInterval ==
    (Done("calcSOSParameter") /\ args.y.type \in {"ndarray", "DataFrame"}
        /\ RatingsInScale) =>
        /\ outcome = "return"
        /\ Le(Num(0), ret)
        /\ Le(ret, Num(1))

\* C7: for valid arguments getBetaCDF returns 1 at x = high, and at x = low
\* the point mass at low: 1 when mos = low and 0 otherwise.
C7_CdfAtBounds ==
    (Done("getBetaCDF") /\ ValidArgs) =>
        /\ args.x = Num(args.high) => (outcome = "return" /\ ret = Num(1))
        /\ args.x = Num(args.low) =>
               /\ outcome = "return"
               /\ ret = IF args.mos = Num(args.low) THEN Num(1) ELSE Num(0)

\* the point mass at the k-th of n points
PointMass(n, k) == [i \in 1 .. n |-> IF i = k THEN Num(1) ELSE Num(0)]

\* C8: for valid arguments with mos = high, getDiscreteDistribution returns
\* mass 1 at high and 0 elsewhere, and with mos = low mass 1 at low and 0
\* elsewhere; no shape parameter is derived.
C8_DegenerateDiscrete ==
    (Done("getDiscreteDistribution") /\ ValidArgs /\ ~InteriorMOS) =>
        /\ outcome = "return"
        /\ ret.xk = Xk(args.low, args.high)
        /\ ret.pk = PointMass(args.high - args.low + 1,
                              IF args.mos = Num(args.high)
                              THEN args.high - args.low + 1 ELSE 1)
        /\ \A i \in 1 .. Len(trace) :
               trace[i].fn \notin {"getBetaParams", "getBetaDistribution"}

\* a discrete distribution was returned for a MOS at the upper bound
C8_Witness ==
    /\ Done("getDiscreteDistribution")
    /\ ValidArgs
    /\ args.mos = Num(args.high)
    /\ outcome = "return"

\* C9: for valid arguments with low < mos < high and 0 < p <= 1,
\* a = (1-p)(mos-low)/((high-low)p) and b = (1-p)(high-mos)/((high-low)p),
\* stated without division; mos=4, p=0.25, low=1, high=5 gives (2.25, 0.75).
C9_ClosedForm ==
    (Done("getBetaParams") /\ ValidArgs /\ InteriorMOS
        /\ Gt(args.sos_parameter, Num(0))) =>
        LET p  == args.sos_parameter
            m  == args.mos
            w  == args.high - args.low
        IN  /\ outcome = "return"
            /\ IsFinite(ret.a) /\ IsFinite(ret.b)
            /\ ret.a.n * (w * p.n * m.d)
                   = ret.a.d * ((p.d - p.n) * (m.n - args.low * m.d))
            /\ ret.b.n * (w * p.n * m.d)
                   = ret.b.d * ((p.d - p.n) * (args.high * m.d - m.n))
            /\ (m = Num(4) /\ p = Rat(1, 4) /\ args.low = 1 /\ args.high = 5) =>
                   ret = [a |-> Rat(9, 4), b |-> Rat(3, 4)]

\* getBetaParams(mos=4, sos_parameter=0.25, low=1, high=5) has returned
C9_Witness ==
    /\ Done("getBetaParams")
    /\ args = [mos |-> Num(4), sos_parameter |-> Rat(1, 4), low |-> 1, high |-> 5]
    /\ outcome = "return"

\* C10: getBetaCDF, getBetaPDF, getBetaDistribution and
\* getDiscreteDistribution never invoke getBetaParams with mos = low or
\* mos = high.
C10_NoDerivationAtBounds ==
    (pc = "done" /\ fn \in MOSFunctions \ {"getBetaParams"}) =>
        \A i \in 1 .. Len(trace) :
            trace[i].fn = "getBetaParams" =>
                /\ trace[i].mos # Num(trace[i].low)
                /\ trace[i].mos # Num(trace[i].high)

\* the edge the claim gives the j-th of the high-low+2 bins' boundaries:
\* low, low+0.5, low+1.5, ..., high-0.5, high
ClaimedEdge(j) ==
    IF j = 1 THEN Num(args.low)
    ELSE IF j = args.high - args.low + 2 THEN Num(args.high)
    ELSE Add(Num(args.low + j - 2), Rat(1, 2))

\* the continuous cumulative at x, as the call e of rv.cdf returned it
CumulativeAt(e, x) == e.bcdf[CHOOSE j \in 1 .. Len(e.zk) : e.zk[j] = x]

\* C11: in the general case (low < mos < high) getDiscreteDistribution
\* evaluates the cumulative F of the Beta distribution on [low, high] at the
\* high-low+2 edges low, low+0.5, ..., high-0.5, high, and the distribution
\* it returns has mass(low) = F(low+0.5) - F(low),
\* mass(high) = F(high) - F(high-0.5) and mass(k) = F(k+0.5) - F(k-0.5) for
\* every integer k strictly between low and high.
C11_BinEdges ==
    (Done("getDiscreteDistribution") /\ ValidArgs /\ InteriorMOS) =>
        LET n    == args.high - args.low
            half == Rat(1, 2)
            cdfs == {i \in 1 .. Len(trace) : trace[i].fn = "rv_frozen.cdf"}
        IN  /\ outcome = "return" => cdfs # {}
            /\ \A i \in cdfs :
                 LET e == trace[i]
                 IN  /\ Len(e.zk) = n + 2
                     /\ \A j \in 1 .. n + 2 : e.zk[j] = ClaimedEdge(j)
                     /\ e.rv.loc = args.low /\ e.rv.scale = n
                     /\ (ShapesOK(e.rv.a, e.rv.b) /\ IntegerShapes(e.rv.a, e.rv.b)) =>
                            \A j \in 1 .. n + 2 :
                                e.bcdf[j] = BetaInc(e.rv.a.n, e.rv.b.n,
                                                    Div(Sub(e.zk[j], Num(args.low)),
                                                        Num(n)))
                     /\ outcome = "return" =>
                            /\ ret.pk[1]
                                 = Sub(CumulativeAt(e, Add(Num(args.low), half)),
                                       CumulativeAt(e, Num(args.low)))
                            /\ ret.pk[n + 1]
                                 = Sub(CumulativeAt(e, Num(args.high)),
                                       CumulativeAt(e, Sub(Num(args.high), half)))
                            /\ \A k \in args.low + 1 .. args.high - 1 :
                                 ret.pk[k - args.low + 1]
                                   = Sub(CumulativeAt(e, Add(Num(k), half)),
                                         CumulativeAt(e, Sub(Num(k), half)))

\* a discrete distribution was returned in the general case on a scale with
\* a point strictly between low and high, with mass strictly inside (0, 1)
\* at that point
C11_Witness ==
    /\ Done("getDiscreteDistribution")
    /\ ValidArgs
    /\ InteriorMOS
    /\ outcome = "return"
    /\ args.high - args.low >= 2
    /\ Gt(ret.pk[2], Num(0))
    /\ Lt(ret.pk[2], Num(1))

====
